---- MODULE Spec2Model ----
(***************************************************************************)
(* Watchlist+ (src/js/app.js): the persisted collection of watchlists, the *)
(* handlers that change it, and the share / import codec.                  *)
(*                                                                         *)
(* Texts are sequences of one-character strings, so that trim, lower-casing *)
(* and the URL scheme test are computed the way the code computes them.    *)
(* Identifiers (crypto.randomUUID) are naturals, 0 stands for null, and a  *)
(* generated identifier differs from every identifier the state holds.     *)
(***************************************************************************)
EXTENDS Integers, Sequences, FiniteSets, TLC

VARIABLES localStorage, currentWatchlistId, currentMovieId, last

vars == <<localStorage, currentWatchlistId, currentMovieId, last>>

\* ------------------------------------------------------------------ bounds

\* watchlists plus movies the stored collection may hold
MaxRecords == 4

\* ------------------------------------------------------------------- texts

UpperCase == <<"A","B","C","D","E","F","G","H","I","J","K","L","M",
               "N","O","P","Q","R","S","T","U","V","W","X","Y","Z">>
LowerCase == <<"a","b","c","d","e","f","g","h","i","j","k","l","m",
               "n","o","p","q","r","s","t","u","v","w","x","y","z">>
Digits == {"0","1","2","3","4","5","6","7","8","9"}
Range(s) == {s[i] : i \in DOMAIN s}

\* a text is a sequence of characters; "nbsp" is the no-break space U+00A0
\* String.prototype.trim: the white space the model's alphabet holds
WhiteSpace == {" ", "\t", "\n", "nbsp"}

LowerChar(c) ==
  IF \E i \in DOMAIN UpperCase : UpperCase[i] = c
  THEN LowerCase[CHOOSE i \in DOMAIN UpperCase : UpperCase[i] = c]
  ELSE c

toLowerCase(s) == [i \in DOMAIN s |-> LowerChar(s[i])]

RECURSIVE TrimStart(_, _)
TrimStart(s, ws) ==
  IF s # <<>> /\ Head(s) \in ws THEN TrimStart(Tail(s), ws) ELSE s

RECURSIVE TrimEnd(_, _)
TrimEnd(s, ws) ==
  IF s # <<>> /\ s[Len(s)] \in ws
  THEN TrimEnd(SubSeq(s, 1, Len(s) - 1), ws) ELSE s

trim(s) == TrimEnd(TrimStart(s, WhiteSpace), WhiteSpace)

\* ------------------------------------------------- new URL(url).protocol

SpecialSchemes == { <<"h","t","t","p">>, <<"h","t","t","p","s">>,
                    <<"f","t","p">>, <<"w","s">>, <<"w","s","s">> }
SchemeChars == Range(UpperCase) \cup Range(LowerCase) \cup Digits \cup {"+", "-", "."}
ForbiddenHostChars == {" ", "nbsp", "<", ">", "^", "|", "%", "[", "]", "@"}

\* the URL parser first drops leading and trailing C0-control-or-space and
\* every tab and newline; the no-break space is neither
C0ControlOrSpace == {" ", "\t", "\n"}

UrlInput(url) ==
  SelectSeq(TrimEnd(TrimStart(url, C0ControlOrSpace), C0ControlOrSpace),
            LAMBDA c : c \notin {"\t", "\n"})

\* position of the colon ending the scheme, 0 when the text has no scheme
SchemeEnd(u) ==
  LET colons == {i \in DOMAIN u : u[i] = ":"}
      first == IF colons = {} THEN 0
               ELSE CHOOSE i \in colons : \A j \in colons : i <= j
  IN IF first > 1
        /\ u[1] \in Range(UpperCase) \cup Range(LowerCase)
        /\ \A j \in 1..(first - 1) : u[j] \in SchemeChars
     THEN first ELSE 0

RECURSIVE SkipSlashes(_)
SkipSlashes(s) ==
  IF s # <<>> /\ Head(s) \in {"/", "\\"} THEN SkipSlashes(Tail(s)) ELSE s

RECURSIVE UpTo(_, _)
UpTo(s, stops) ==
  IF s = <<>> \/ Head(s) \in stops THEN <<>> ELSE <<Head(s)>> \o UpTo(Tail(s), stops)

\* host[:port] of a special-scheme URL: non-empty host, digits for the port
AuthorityOk(rest) ==
  LET authority == UpTo(SkipSlashes(rest), {"/", "\\", "?", "#"})
      host == UpTo(authority, {":"})
      port == SubSeq(authority, Len(host) + 2, Len(authority))
  IN /\ host # <<>>
     /\ Range(host) \cap ForbiddenHostChars = {}
     /\ Range(port) \subseteq Digits

\* [ok |-> the text parses as an absolute URL, protocol |-> scheme plus ":"]
ParseUrl(url) ==
  LET u == UrlInput(url)
      e == SchemeEnd(u)
      scheme == toLowerCase(SubSeq(u, 1, e - 1))
  IN IF e = 0 THEN [ok |-> FALSE, protocol |-> <<>>]
     ELSE IF scheme \in SpecialSchemes /\ ~AuthorityOk(SubSeq(u, e + 1, Len(u)))
     THEN [ok |-> FALSE, protocol |-> <<>>]
     ELSE [ok |-> TRUE, protocol |-> scheme \o <<":">>]

validatePosterUrl_AnyScheme(url) ==
  url # <<>> /\ ParseUrl(url).ok

validatePosterUrl(url) ==
  /\ url # <<>>
  /\ LET parsed == ParseUrl(url)
     IN parsed.ok /\ parsed.protocol \in { <<"h","t","t","p",":">>,
                                           <<"h","t","t","p","s",":">> }

\* ----------------------------------------------------------- JSON values

Undefined == [t |-> "undefined"]
JNull == [t |-> "null"]
JBool(b) == [t |-> "boolean", v |-> b]
JNum(n) == [t |-> "number", v |-> n]
JStr(s) == [t |-> "string", v |-> s]
JArr(s) == [t |-> "array", v |-> s]
JObj(r) == [t |-> "object", v |-> r]

typeof(x) == IF x.t \in {"null", "array"} THEN "object" ELSE x.t

Truthy(x) ==
  CASE x.t \in {"undefined", "null"} -> FALSE
    [] x.t = "boolean" -> x.v
    [] x.t = "number" -> x.v # 0
    [] x.t = "string" -> x.v # <<>>
    [] OTHER -> TRUE

\* property read on a value that is neither null nor undefined
Get(x, f) == IF x.t = "object" /\ f \in DOMAIN x.v THEN x.v[f] ELSE Undefined

\* validatePosterUrl(url) for a url of any type: !url || typeof url !== "string"
\* returns false before the URL is parsed, and the parse is in a try block
validatePosterUrlOf(x) ==
  /\ Truthy(x)
  /\ typeof(x) = "string"
  /\ validatePosterUrl(x.v)

\* ------------------------------------------------------------ persistence

\* localStorage under STORAGE_KEY: the key is absent, or it holds the
\* serialized array last written (JSON.stringify then JSON.parse gives back
\* the same texts, booleans, integers, arrays and objects)
Absent == [kind |-> "absent"]
Stored(watchlists) == [kind |-> "array", data |-> watchlists]

loadWatchlists(ls) == IF ls.kind = "array" THEN ls.data ELSE <<>>

\* setItem either completes or throws (quota, private mode): the exception is
\* caught, and the stored document stays what it was
saveWatchlists(ls, watchlists, writeOk) ==
  IF writeOk THEN Stored(watchlists) ELSE ls

FindById_FirstWhenMissing(seq, id) ==
  IF \E i \in DOMAIN seq : seq[i].id = id
  THEN CHOOSE i \in DOMAIN seq : seq[i].id = id /\ \A j \in 1..(i - 1) : seq[j].id # id
  ELSE IF seq # <<>> THEN 1 ELSE 0

\* watchlists.find((wl) => wl.id === id): the position of the first match, or 0
FindById(seq, id) ==
  IF \E i \in DOMAIN seq : seq[i].id = id
  THEN CHOOSE i \in DOMAIN seq : seq[i].id = id /\ \A j \in 1..(i - 1) : seq[j].id # id
  ELSE 0

\* ----------------------------------------------------------------- records

icons == << <<"popcorn">> >>

NewWatchlist_Prepend(watchlists, id, title) ==
  << [id |-> id, title |-> title,
      icon |-> icons[(Len(watchlists) % Len(icons)) + 1], items |-> <<>>] >>
  \o watchlists

NewWatchlist_CountAsId(watchlists, id, title) ==
  Append(watchlists,
         [id |-> Len(watchlists) + 1, title |-> title,
          icon |-> icons[(Len(watchlists) % Len(icons)) + 1], items |-> <<>>])

\* formCreate: watchlists.push({id, title, icon, items: []})
NewWatchlist(watchlists, id, title) ==
  Append(watchlists,
         [id |-> id, title |-> title,
          icon |-> icons[(Len(watchlists) % Len(icons)) + 1], items |-> <<>>])

NewMovie_OrderOne(watchlist, id, title, posterUrl) ==
  [id |-> id, title |-> title, posterUrl |-> posterUrl, watched |-> FALSE,
   order |-> Len(watchlist.items) + 1, review |-> <<>>]

\* formCreateMovie: the movie object pushed onto watchlist.items
NewMovie(watchlist, id, title, posterUrl) ==
  [id |-> id, title |-> title, posterUrl |-> posterUrl, watched |-> FALSE,
   order |-> Len(watchlist.items), review |-> <<>>]

MarkWatched_Toggle(movie) == [movie EXCEPT !.watched = ~movie.watched]

MarkWatched_ClearReview(movie) == [movie EXCEPT !.watched = TRUE, !.review = <<>>]

\* detailContent click, toggle-watched: movie.watched = true
MarkWatched(movie) == [movie EXCEPT !.watched = TRUE]

SetReview_KeepWhenEmpty(movie, review) ==
  IF review = <<>> THEN movie ELSE [movie EXCEPT !.review = review]

SetReview_ResetWatched(movie, review) ==
  [movie EXCEPT !.review = review, !.watched = FALSE]

\* formReview: movie.review = review
SetReview(movie, review) == [movie EXCEPT !.review = review]

\* ------------------------------------------------------------------ sharing

createShareableWatchlist_KeepWatched(watchlist, ids) ==
  [id |-> ids[1],
   title |-> watchlist.title,
   icon |-> watchlist.icon,
   items |-> [index \in DOMAIN watchlist.items |->
                [id |-> ids[1 + index],
                 title |-> watchlist.items[index].title,
                 posterUrl |-> watchlist.items[index].posterUrl,
                 watched |-> watchlist.items[index].watched,
                 order |-> index - 1,
                 review |-> <<>>]]]

createShareableWatchlist_OrderFromOne(watchlist, ids) ==
  [id |-> ids[1],
   title |-> watchlist.title,
   icon |-> watchlist.icon,
   items |-> [index \in DOMAIN watchlist.items |->
                [id |-> ids[1 + index],
                 title |-> watchlist.items[index].title,
                 posterUrl |-> watchlist.items[index].posterUrl,
                 watched |-> FALSE,
                 order |-> index,
                 review |-> <<>>]]]

createShareableWatchlist_OneId(watchlist, ids) ==
  [id |-> ids[1],
   title |-> watchlist.title,
   icon |-> watchlist.icon,
   items |-> [index \in DOMAIN watchlist.items |->
                [id |-> ids[1],
                 title |-> watchlist.items[index].title,
                 posterUrl |-> watchlist.items[index].posterUrl,
                 watched |-> FALSE,
                 order |-> index - 1,
                 review |-> <<>>]]]

createShareableWatchlist_KeepOrder(watchlist, ids) ==
  [id |-> ids[1],
   title |-> watchlist.title,
   icon |-> watchlist.icon,
   items |-> [index \in DOMAIN watchlist.items |->
                [id |-> ids[1 + index],
                 title |-> watchlist.items[index].title,
                 posterUrl |-> watchlist.items[index].posterUrl,
                 watched |-> FALSE,
                 order |-> watchlist.items[index].order,
                 review |-> <<>>]]]

\* a copy with generated ids (ids: what the successive generateId() calls
\* return), every movie unwatched, unreviewed and ordered by its array index
createShareableWatchlist(watchlist, ids) ==
  [id |-> ids[1],
   title |-> watchlist.title,
   icon |-> watchlist.icon,
   items |-> [index \in DOMAIN watchlist.items |->
                [id |-> ids[1 + index],
                 title |-> watchlist.items[index].title,
                 posterUrl |-> watchlist.items[index].posterUrl,
                 watched |-> FALSE,
                 order |-> index - 1,
                 review |-> <<>>]]]

\* JSON.stringify(shareableData) read back by JSON.parse: identifiers are
\* texts of one symbol, order a number
ToJSON(w) ==
  JObj([id |-> JStr(<<ToString(w.id)>>),
        title |-> JStr(w.title),
        icon |-> JStr(w.icon),
        items |-> JArr([k \in DOMAIN w.items |->
                   JObj([id |-> JStr(<<ToString(w.items[k].id)>>),
                         title |-> JStr(w.items[k].title),
                         posterUrl |-> JStr(w.items[k].posterUrl),
                         watched |-> JBool(w.items[k].watched),
                         order |-> JNum(w.items[k].order),
                         review |-> JStr(w.items[k].review)])])])

ItemOk_TruthyWatched(item) ==
  /\ Truthy(item)
  /\ typeof(Get(item, "title")) = "string"
  /\ trim(Get(item, "title").v) # <<>>
  /\ typeof(Get(item, "posterUrl")) = "string"
  /\ validatePosterUrl(Get(item, "posterUrl").v)
  /\ Truthy(Get(item, "watched"))
  /\ typeof(Get(item, "order")) = "number"

ItemOk_NoUrlCheck(item) ==
  /\ Truthy(item)
  /\ typeof(Get(item, "title")) = "string"
  /\ trim(Get(item, "title").v) # <<>>
  /\ typeof(Get(item, "posterUrl")) = "string"
  /\ typeof(Get(item, "watched")) = "boolean"
  /\ typeof(Get(item, "order")) = "number"

ItemOk(item) ==
  /\ Truthy(item)
  /\ typeof(Get(item, "title")) = "string"
  /\ trim(Get(item, "title").v) # <<>>
  /\ typeof(Get(item, "posterUrl")) = "string"
  /\ validatePosterUrl(Get(item, "posterUrl").v)
  /\ typeof(Get(item, "watched")) = "boolean"
  /\ typeof(Get(item, "order")) = "number"

validateImportedWatchlist_NoItemCheck(data) ==
  /\ Truthy(data)
  /\ typeof(data) = "object"
  /\ typeof(Get(data, "title")) = "string"
  /\ trim(Get(data, "title").v) # <<>>
  /\ typeof(Get(data, "icon")) = "string"
  /\ Get(data, "items").t = "array"

validateImportedWatchlist(data) ==
  /\ Truthy(data)
  /\ typeof(data) = "object"
  /\ typeof(Get(data, "title")) = "string"
  /\ trim(Get(data, "title").v) # <<>>
  /\ typeof(Get(data, "icon")) = "string"
  /\ Get(data, "items").t = "array"
  /\ \A k \in DOMAIN Get(data, "items").v : ItemOk(Get(data, "items").v[k])

\* a property read throws a TypeError on null and on undefined
Nullish(x) == x.t \in {"undefined", "null"}

\* validateImportedWatchlist throws: one of the property reads it gets to
\* (data.title at 192, item.title at 200) is a read on null or undefined
validateImportedWatchlistThrows(data) ==
  /\ Truthy(data)
  /\ typeof(data) = "object"
  /\ \/ Nullish(data)
     \/ /\ typeof(Get(data, "title")) = "string"
        /\ trim(Get(data, "title").v) # <<>>
        /\ typeof(Get(data, "icon")) = "string"
        /\ Get(data, "items").t = "array"
        /\ \E k \in DOMAIN Get(data, "items").v :
             /\ \A j \in 1..(k - 1) : ItemOk(Get(data, "items").v[j])
             /\ Truthy(Get(data, "items").v[k])
             /\ Nullish(Get(data, "items").v[k])

\* the properties createShareableWatchlist reads from a parsed payload
PayloadView(data) ==
  [title |-> Get(data, "title").v,
   icon |-> Get(data, "icon").v,
   items |-> [k \in DOMAIN Get(data, "items").v |->
               [title |-> Get(Get(data, "items").v[k], "title").v,
                posterUrl |-> Get(Get(data, "items").v[k], "posterUrl").v,
                watched |-> Get(Get(data, "items").v[k], "watched").v,
                order |-> Get(Get(data, "items").v[k], "order").v]]]

SharedSuffix == <<" ","(","S","h","a","r","e","d"," ","w","i","t","h"," ","m","e",")">>

ImportTitle_ExactMatch(watchlists, title) ==
  IF \E i \in DOMAIN watchlists : watchlists[i].title = title
  THEN title \o SharedSuffix ELSE title

\* the duplicate-title check of importWatchlist
ImportTitle(watchlists, title) ==
  IF \E i \in DOMAIN watchlists : toLowerCase(watchlists[i].title) = toLowerCase(title)
  THEN title \o SharedSuffix ELSE title

ImportInto_ReplaceDuplicate(watchlists, newWatchlist, title) ==
  IF \E i \in DOMAIN watchlists : toLowerCase(watchlists[i].title) = toLowerCase(title)
  THEN [i \in DOMAIN watchlists |->
          IF toLowerCase(watchlists[i].title) = toLowerCase(title)
          THEN newWatchlist ELSE watchlists[i]]
  ELSE Append(watchlists, newWatchlist)

\* importWatchlist: watchlists.push(newWatchlist)
ImportInto(watchlists, newWatchlist, title) == Append(watchlists, newWatchlist)


\* ---------------------------------------------------------------- rendering

\* escapeHTML(str): the innerHTML of a span whose textContent is str
RECURSIVE escapeHTML(_)
escapeHTML(str) ==
  IF str = <<>> THEN <<>>
  ELSE (CASE Head(str) = "&" -> <<"&","a","m","p",";">>
          [] Head(str) = "<" -> <<"&","l","t",";">>
          [] Head(str) = ">" -> <<"&","g","t",";">>
          [] Head(str) = "nbsp" -> <<"&","n","b","s","p",";">>
          [] OTHER -> <<Head(str)>>) \o escapeHTML(Tail(str))

\* .join(""): the parts one after the other
RECURSIVE Join(_)
Join(parts) == IF parts = <<>> THEN <<>> ELSE Head(parts) \o Join(Tail(parts))

\* a ${...} of a template literal that inserts a field of a record: the text
\* it puts into the markup, and whether that is element content or the value
\* of a quoted attribute
Inserted(field, context, text) ==
  [field |-> field, context |-> context, inserted |-> text]

\* the template of renderWatchlistCards for one watchlist: what it inserts of
\* the watchlist's icon and title
WatchlistCardHTML(wl) ==
  << Inserted("icon", "content", wl.icon),
     Inserted("title", "content", escapeHTML(wl.title)),
     Inserted("title", "attribute", escapeHTML(wl.title)) >>

renderWatchlistCards(watchlists) ==
  Join([i \in DOMAIN watchlists |-> WatchlistCardHTML(watchlists[i])])

\* buildMovieCardHTML(movie): what it inserts of the movie's poster URL, title
\* and review
buildMovieCardHTML(movie) ==
  << Inserted("posterUrl", "attribute", escapeHTML(movie.posterUrl)),
     Inserted("title", "attribute", escapeHTML(movie.title)),
     Inserted("title", "content", escapeHTML(movie.title)),
     Inserted("title", "attribute", escapeHTML(movie.title)),
     Inserted("title", "attribute", escapeHTML(movie.title)) >>
  \o IF movie.review # <<>>
     THEN << Inserted("review", "content", escapeHTML(movie.review)) >>
     ELSE <<>>

\* watchlist.items.sort((a, b) => a.order - b.order): a stable sort
RECURSIVE SortByOrder(_)
SortByOrder(items) ==
  IF items = <<>> THEN <<>>
  ELSE LET first == CHOOSE k \in DOMAIN items :
                      /\ \A j \in DOMAIN items : items[k].order <= items[j].order
                      /\ \A j \in 1..(k - 1) : items[j].order # items[k].order
       IN <<items[first]>>
          \o SortByOrder(SubSeq(items, 1, first - 1)
                         \o SubSeq(items, first + 1, Len(items)))

\* renderMovies(watchlistId): nothing for an unknown watchlist or one without
\* movies (the empty-state text holds no field)
renderMovies(watchlists, watchlistId) ==
  LET w == FindById(watchlists, watchlistId)
  IN IF w = 0 THEN <<>>
     ELSE LET sortedMovies == SortByOrder(watchlists[w].items)
          IN Join([k \in DOMAIN sortedMovies |-> buildMovieCardHTML(sortedMovies[k])])

\* ------------------------------------------------------------------- inputs

HttpsX == <<"h","t","t","p","s",":","/","/","x">>
HttpY == <<"H","T","T","P",":","/","/","y","/","p",".","j","p","g">>
JavascriptUrl == <<"j","a","v","a","s","c","r","i","p","t",":","a","l","e","r","t","(","1",")">>

\* what the user types into inputTitle
TitleInputs == << <<" ">>, <<" ","H","\n">> >>

\* what the user types into inputMovieTitle and inputMoviePosterUrl
MovieInputs ==
  << [title |-> <<"a"," ">>, posterUrl |-> <<" ">> \o HttpsX],
     [title |-> <<" ">>, posterUrl |-> HttpsX],
     [title |-> <<"a">>, posterUrl |-> JavascriptUrl],
     [title |-> <<"a">>, posterUrl |-> <<"nbsp">> \o HttpsX] >>

\* what the user types into textareaReview
ReviewInputs == << <<>>, <<"A">>, <<" ","A">> >>

\* what the user pastes into textareaImport: a blank text, a text JSON.parse
\* rejects, or the text of a JSON value
BlankText == [kind |-> "blank"]
UnparsableText == [kind |-> "unparsable"]
JsonText(value) == [kind |-> "json", value |-> value]

\* a foreign payload: its ids and icon are its own, its movie is watched,
\* reviewed and ordered 7
ForeignPayload ==
  JObj([id |-> JStr(<<"1">>),
        title |-> JStr(<<"h">>),
        icon |-> JStr(<<"<">>),
        items |-> JArr(<< JObj([id |-> JStr(<<"1">>),
                                title |-> JStr(<<"b">>),
                                posterUrl |-> JStr(HttpY),
                                watched |-> JBool(TRUE),
                                order |-> JNum(7),
                                review |-> JStr(<<"R">>)]) >>)])

NoItemsPayload ==
  JObj([id |-> JStr(<<"9">>), title |-> JStr(<<"h">>), icon |-> JStr(<<"x">>)])

WatchedYesPayload ==
  JObj([id |-> JStr(<<"9">>),
        title |-> JStr(<<"h">>),
        icon |-> JStr(<<"x">>),
        items |-> JArr(<< JObj([id |-> JStr(<<"8">>),
                                title |-> JStr(<<"b">>),
                                posterUrl |-> JStr(HttpsX),
                                watched |-> JStr(<<"y","e","s">>),
                                order |-> JNum(0),
                                review |-> JStr(<<>>)]) >>)])

\* a payload that is well formed but for the poster URL of its second movie
HostilePosterPayload ==
  JObj([id |-> JStr(<<"9">>),
        title |-> JStr(<<"p">>),
        icon |-> JStr(<<"x">>),
        items |-> JArr(<< JObj([id |-> JStr(<<"8">>),
                                title |-> JStr(<<"b">>),
                                posterUrl |-> JStr(HttpsX),
                                watched |-> JBool(FALSE),
                                order |-> JNum(0),
                                review |-> JStr(<<>>)]),
                          JObj([id |-> JStr(<<"7">>),
                                title |-> JStr(<<"c">>),
                                posterUrl |-> JStr(JavascriptUrl),
                                watched |-> JBool(FALSE),
                                order |-> JNum(1),
                                review |-> JStr(<<>>)]) >>)])

ImportTexts ==
  << BlankText, UnparsableText, JsonText(ForeignPayload),
     JsonText(NoItemsPayload), JsonText(WatchedYesPayload),
     JsonText(HostilePosterPayload) >>

\* ------------------------------------------------------------------- state

\* the identifiers a collection holds
IdsOf(watchlists) ==
  {watchlists[i].id : i \in DOMAIN watchlists}
  \cup UNION {{watchlists[i].items[k].id : k \in DOMAIN watchlists[i].items} :
              i \in DOMAIN watchlists}

\* watchlists plus movies
Size(watchlists) == Cardinality(IdsOf(watchlists))

RECURSIVE LeastFree(_, _)
LeastFree(used, n) == IF n \notin used THEN n ELSE LeastFree(used, n + 1)

\* crypto.randomUUID() called k times: k identifiers, different from one
\* another and from every identifier in used
RECURSIVE generateId(_, _)
generateId(used, k) ==
  IF k = 0 THEN <<>>
  ELSE LET id == LeastFree(used, 1) IN <<id>> \o generateId(used \cup {id}, k - 1)

Init ==
  /\ localStorage = Absent
  /\ currentWatchlistId = 0
  /\ currentMovieId = 0
  /\ last = [op |-> "load"]

\* the record of the handler that ran last: the operation, its input, the
\* movie it found (0 when it looks for none), how it ended, whether the write
\* to localStorage completed, and what it gave
Call(op, input, found, result, written, output) ==
  [op |-> op, input |-> input, found |-> found, result |-> result,
   written |-> written, output |-> output]

\* ---------------------------------------------------------------- handlers

FormCreateSubmit_StaleCopy(input) ==
  LET title == trim(input)
      watchlists == <<>>
      id == generateId(IdsOf(watchlists), 1)[1]
  IN IF title = <<>>
     THEN /\ last' = Call("createWatchlist", input, 0, "invalid", FALSE, 0)
          /\ UNCHANGED <<localStorage, currentWatchlistId, currentMovieId>>
     ELSE /\ Size(loadWatchlists(localStorage)) < MaxRecords
          /\ \E writeOk \in BOOLEAN :
               /\ localStorage' = saveWatchlists(localStorage,
                                    NewWatchlist(watchlists, id, title), writeOk)
               /\ last' = Call("createWatchlist", input, 0, "done", writeOk, 0)
          /\ UNCHANGED <<currentWatchlistId, currentMovieId>>

FormCreateSubmit_NoTitleCheck(input) ==
  LET title == trim(input)
      watchlists == loadWatchlists(localStorage)
      id == generateId(IdsOf(watchlists), 1)[1]
  IN /\ Size(watchlists) < MaxRecords
     /\ \E writeOk \in BOOLEAN :
          /\ localStorage' = saveWatchlists(localStorage,
                               NewWatchlist(watchlists, id, title), writeOk)
          /\ last' = Call("createWatchlist", input, 0, "done", writeOk, 0)
     /\ UNCHANGED <<currentWatchlistId, currentMovieId>>

\* formCreate submit
FormCreateSubmit(input) ==
  LET title == trim(input)
      watchlists == loadWatchlists(localStorage)
      id == generateId(IdsOf(watchlists), 1)[1]
  IN IF title = <<>>
     THEN /\ last' = Call("createWatchlist", input, 0, "invalid", FALSE, 0)
          /\ UNCHANGED <<localStorage, currentWatchlistId, currentMovieId>>
     ELSE /\ Size(watchlists) < MaxRecords
          /\ \E writeOk \in BOOLEAN :
               /\ localStorage' = saveWatchlists(localStorage,
                                    NewWatchlist(watchlists, id, title), writeOk)
               /\ last' = Call("createWatchlist", input, 0, "done", writeOk, 0)
          /\ UNCHANGED <<currentWatchlistId, currentMovieId>>

\* contentGrid click on a card: openDetailDialog(id)
openDetailDialog(watchlistId) ==
  LET watchlists == loadWatchlists(localStorage)
      found == FindById(watchlists, watchlistId) # 0
  IN /\ currentWatchlistId' = IF found THEN watchlistId ELSE currentWatchlistId
     /\ last' = Call("getWatchlist", watchlistId, 0,
                     IF found THEN "done" ELSE "notFound", FALSE, 0)
     /\ UNCHANGED <<localStorage, currentMovieId>>

closeDetailDialog ==
  /\ currentWatchlistId # 0
  /\ currentWatchlistId' = 0
  /\ last' = Call("closeDetail", 0, 0, "done", FALSE, 0)
  /\ UNCHANGED <<localStorage, currentMovieId>>

closeReviewDialog ==
  /\ currentMovieId # 0
  /\ currentMovieId' = 0
  /\ last' = Call("closeReview", 0, 0, "done", FALSE, 0)
  /\ UNCHANGED <<localStorage, currentWatchlistId>>

handleShareWatchlist_SavesCopy(watchlistId) ==
  LET watchlists == loadWatchlists(localStorage)
      w == FindById(watchlists, watchlistId)
      copy == createShareableWatchlist(watchlists[w],
                generateId(IdsOf(watchlists), 1 + Len(watchlists[w].items)))
  IN IF w = 0
     THEN /\ last' = Call("exportWatchlist", watchlistId, 0, "notFound", FALSE, 0)
          /\ UNCHANGED <<localStorage, currentWatchlistId, currentMovieId>>
     ELSE /\ last' = Call("exportWatchlist", watchlistId, 0, "done", FALSE, copy)
          /\ localStorage' = Stored([watchlists EXCEPT ![w].items = copy.items])
          /\ UNCHANGED <<currentWatchlistId, currentMovieId>>

\* contentGrid click on a share button: handleShareWatchlist(watchlistId);
\* the copy goes to the clipboard
handleShareWatchlist(watchlistId) ==
  LET watchlists == loadWatchlists(localStorage)
      w == FindById(watchlists, watchlistId)
  IN /\ IF w = 0
        THEN last' = Call("exportWatchlist", watchlistId, 0, "notFound", FALSE, 0)
        ELSE last' = Call("exportWatchlist", watchlistId, 0, "done", FALSE,
                          createShareableWatchlist(watchlists[w],
                            generateId(IdsOf(watchlists), 1 + Len(watchlists[w].items))))
     /\ UNCHANGED <<localStorage, currentWatchlistId, currentMovieId>>

\* detailContent click on a movie card button
DetailContentClick(action, movieId) ==
  LET watchlists == loadWatchlists(localStorage)
      w == FindById(watchlists, currentWatchlistId)
      m == IF w = 0 THEN 0 ELSE FindById(watchlists[w].items, movieId)
      op == IF action = "toggle-watched" THEN "markWatched" ELSE "openReview"
  IN IF action = "" \/ movieId = 0
     THEN /\ last' = Call("click", movieId, 0, "ignored", FALSE, 0)
          /\ UNCHANGED <<localStorage, currentWatchlistId, currentMovieId>>
     ELSE IF w = 0 \/ m = 0
     THEN /\ last' = Call(op, movieId, 0, "notFound", FALSE, 0)
          /\ UNCHANGED <<localStorage, currentWatchlistId, currentMovieId>>
     ELSE IF action = "toggle-watched"
     THEN /\ \E writeOk \in BOOLEAN :
               /\ localStorage' = saveWatchlists(localStorage,
                    [watchlists EXCEPT ![w].items[m] = MarkWatched(@)], writeOk)
               /\ last' = Call(op, movieId, watchlists[w].items[m], "done", writeOk, 0)
          /\ UNCHANGED <<currentWatchlistId, currentMovieId>>
     ELSE \* add-review, edit-review: openReviewDialog(movieId, movie.review)
          /\ currentMovieId' = movieId
          /\ last' = Call(op, movieId, watchlists[w].items[m], "done", FALSE, 0)
          /\ UNCHANGED <<localStorage, currentWatchlistId>>

\* formReview submit
FormReviewSubmit(input) ==
  LET review == trim(input)
      watchlists == loadWatchlists(localStorage)
      w == FindById(watchlists, currentWatchlistId)
      m == IF w = 0 THEN 0 ELSE FindById(watchlists[w].items, currentMovieId)
  IN IF w = 0 \/ m = 0
     THEN /\ last' = Call("setReview", input, 0, "notFound", FALSE, 0)
          /\ UNCHANGED <<localStorage, currentWatchlistId, currentMovieId>>
     ELSE /\ \E writeOk \in BOOLEAN :
               /\ localStorage' = saveWatchlists(localStorage,
                    [watchlists EXCEPT ![w].items[m] = SetReview(@, review)], writeOk)
               /\ last' = Call("setReview", input, watchlists[w].items[m],
                            "done", writeOk, 0)
          /\ currentMovieId' = 0
          /\ UNCHANGED currentWatchlistId

FormCreateMovieSubmit_NoTitleCheck(input) ==
  LET posterUrl == trim(input.posterUrl)
      title == trim(input.title)
      watchlists == loadWatchlists(localStorage)
      w == FindById(watchlists, currentWatchlistId)
      id == generateId(IdsOf(watchlists), 1)[1]
  IN IF posterUrl = <<>> \/ ~validatePosterUrl(posterUrl)
     THEN /\ last' = Call("addItem", input, 0, "invalid", FALSE, 0)
          /\ UNCHANGED <<localStorage, currentWatchlistId, currentMovieId>>
     ELSE IF w = 0
     THEN /\ last' = Call("addItem", input, 0, "notFound", FALSE, 0)
          /\ UNCHANGED <<localStorage, currentWatchlistId, currentMovieId>>
     ELSE /\ Size(watchlists) < MaxRecords
          /\ \E writeOk \in BOOLEAN :
               /\ localStorage' = saveWatchlists(localStorage,
                    [watchlists EXCEPT ![w].items =
                       Append(@, NewMovie(watchlists[w], id, title, posterUrl))],
                    writeOk)
               /\ last' = Call("addItem", input, 0, "done", writeOk, 0)
          /\ UNCHANGED <<currentWatchlistId, currentMovieId>>

\* formCreateMovie submit
FormCreateMovieSubmit(input) ==
  LET posterUrl == trim(input.posterUrl)
      title == trim(input.title)
      watchlists == loadWatchlists(localStorage)
      w == FindById(watchlists, currentWatchlistId)
      id == generateId(IdsOf(watchlists), 1)[1]
  IN IF posterUrl = <<>> \/ title = <<>> \/ ~validatePosterUrl(posterUrl)
     THEN /\ last' = Call("addItem", input, 0, "invalid", FALSE, 0)
          /\ UNCHANGED <<localStorage, currentWatchlistId, currentMovieId>>
     ELSE IF w = 0
     THEN /\ last' = Call("addItem", input, 0, "notFound", FALSE, 0)
          /\ UNCHANGED <<localStorage, currentWatchlistId, currentMovieId>>
     ELSE /\ Size(watchlists) < MaxRecords
          /\ \E writeOk \in BOOLEAN :
               /\ localStorage' = saveWatchlists(localStorage,
                    [watchlists EXCEPT ![w].items =
                       Append(@, NewMovie(watchlists[w], id, title, posterUrl))],
                    writeOk)
               /\ last' = Call("addItem", input, 0, "done", writeOk, 0)
          /\ UNCHANGED <<currentWatchlistId, currentMovieId>>

\* the identifiers a parsed payload carries: generated before the import, so
\* the identifiers the import generates differ from them
IdsIn(data) ==
  LET carried == {Get(data, "id")}
                 \cup {Get(Get(data, "items").v[k], "id") : k \in DOMAIN Get(data, "items").v}
  IN {n \in 1..(2 * MaxRecords + 2) : JStr(<<ToString(n)>>) \in carried}

\* formImport submit: importWatchlist(textareaImport.value.trim())
FormImportSubmit(text) ==
  LET watchlists == loadWatchlists(localStorage)
  IN IF text.kind = "blank"
     THEN /\ last' = Call("importWatchlist", text, 0, "blank", FALSE, FALSE)
          /\ UNCHANGED <<localStorage, currentWatchlistId, currentMovieId>>
     ELSE IF text.kind = "unparsable"
     THEN /\ last' = Call("importWatchlist", text, 0, "parseError", FALSE, FALSE)
          /\ UNCHANGED <<localStorage, currentWatchlistId, currentMovieId>>
     ELSE IF ~validateImportedWatchlist(text.value)
     THEN /\ last' = Call("importWatchlist", text, 0, "invalid", FALSE, FALSE)
          /\ UNCHANGED <<localStorage, currentWatchlistId, currentMovieId>>
     ELSE LET data == PayloadView(text.value)
              importData == [data EXCEPT !.title = ImportTitle(watchlists, data.title)]
              newWatchlist == createShareableWatchlist(importData,
                                generateId(IdsOf(watchlists) \cup IdsIn(text.value), 1 + Len(data.items)))
          IN /\ Size(watchlists) + 1 + Len(data.items) <= MaxRecords
             /\ \E writeOk \in BOOLEAN :
                  /\ localStorage' = saveWatchlists(localStorage,
                       ImportInto(watchlists, newWatchlist, data.title), writeOk)
                  /\ last' = Call("importWatchlist", text, 0, "done", writeOk, TRUE)
             /\ UNCHANGED <<currentWatchlistId, currentMovieId>>

\* the copy handleShareWatchlist makes of the w-th stored watchlist
SharedCopy(w) ==
  LET watchlists == loadWatchlists(localStorage)
  IN createShareableWatchlist(watchlists[w],
       generateId(IdsOf(watchlists), 1 + Len(watchlists[w].items)))

\* data-id of the rendered watchlist cards, and one no card carries
WatchlistIdInputs ==
  LET watchlists == loadWatchlists(localStorage)
  IN {watchlists[i].id : i \in DOMAIN watchlists}
     \cup {LeastFree(IdsOf(watchlists), 1)}

\* data-action and data-id of a click in the detail dialog: no action at all,
\* or a button of a movie card of the open watchlist, or of none
ClickInputs ==
  LET watchlists == loadWatchlists(localStorage)
      w == FindById(watchlists, currentWatchlistId)
      rendered == IF w = 0 THEN {}
                  ELSE {watchlists[w].items[k].id : k \in DOMAIN watchlists[w].items}
  IN {<<"", 0>>}
     \cup ({"toggle-watched", "add-review"}
           \X (rendered \cup {LeastFree(IdsOf(watchlists), 1)}))

Next ==
  \/ \E i \in DOMAIN TitleInputs : FormCreateSubmit(TitleInputs[i])
  \/ \E id \in WatchlistIdInputs : openDetailDialog(id)
  \/ closeDetailDialog
  \/ closeReviewDialog
  \/ \E id \in WatchlistIdInputs : handleShareWatchlist(id)
  \/ \E click \in ClickInputs : DetailContentClick(click[1], click[2])
  \/ \E i \in DOMAIN ReviewInputs : FormReviewSubmit(ReviewInputs[i])
  \/ \E i \in DOMAIN MovieInputs : FormCreateMovieSubmit(MovieInputs[i])
  \/ \E i \in DOMAIN ImportTexts : FormImportSubmit(ImportTexts[i])
  \/ \E w \in DOMAIN loadWatchlists(localStorage) :
        FormImportSubmit(JsonText(ToJSON(SharedCopy(w))))

Spec == Init /\ [][Next]_vars

\* ------------------------------------------------------------------ claims

\* the persisted collection before and after a step
Before == loadWatchlists(localStorage)
After == loadWatchlists(localStorage')

\* the step is operation op, which ran to its end and whose write completed
Completed(op) ==
  last'.op = op /\ last'.result = "done" /\ last'.written

\* the persisted collection of a state, and how the last operation ended
Persisted == loadWatchlists(localStorage)
Ended(op) ==
  last.op = op /\ last.result = "done" /\ last.written

\* every (watchlist, item) position of a collection
Movies(watchlists) ==
  UNION {{<<i, k>> : k \in DOMAIN watchlists[i].items} : i \in DOMAIN watchlists}

\* C1: in every step of every behaviour (whatever the operation and however
\* it ends), a movie that is watched before the step is still in the
\* collection, under the same identifier, and watched after it: the watched
\* flag never goes from true back to false.
C1_WatchedNeverReverts ==
  [][\A p \in Movies(Before) :
       Before[p[1]].items[p[2]].watched =>
         /\ p \in Movies(After)
         /\ After[p[1]].items[p[2]].id = Before[p[1]].items[p[2]].id
         /\ After[p[1]].items[p[2]].watched]_vars

\* a watched movie, and an operation other than markWatched has completed
\* after it was marked
C1_Witness ==
  /\ \E p \in Movies(Persisted) : Persisted[p[1]].items[p[2]].watched
  /\ \/ Ended("setReview")
     \/ Ended("importWatchlist")
     \/ Ended("addItem")

\* C2: in every step, every watchlist of the collection stays at its position
\* with its id, title and icon, and every movie stays at its position in the
\* same watchlist with its id, title and posterUrl.
C2_AppendOnly ==
  [][/\ Len(After) >= Len(Before)
     /\ \A i \in DOMAIN Before :
          /\ After[i].id = Before[i].id
          /\ After[i].title = Before[i].title
          /\ After[i].icon = Before[i].icon
          /\ Len(After[i].items) >= Len(Before[i].items)
          /\ \A k \in DOMAIN Before[i].items :
               /\ After[i].items[k].id = Before[i].items[k].id
               /\ After[i].items[k].title = Before[i].items[k].title
               /\ After[i].items[k].posterUrl = Before[i].items[k].posterUrl]_vars

\* an import has completed into a collection that held a watchlist with a
\* movie, and a watchlist whose title the import collided with
C2_Witness ==
  /\ Ended("importWatchlist")
  /\ Len(Persisted) >= 2
  /\ Persisted[1].items # <<>>
  /\ \E i \in 1..(Len(Persisted) - 1) :
       toLowerCase(Persisted[i].title \o SharedSuffix)
         = toLowerCase(Persisted[Len(Persisted)].title)

\* C3: formCreate with a title that is not empty after trim runs to its end,
\* and when its write completes the collection is the one before plus one
\* watchlist at the end, whose id no record had, whose items are empty and
\* whose icon is the pool's entry at (size before) mod (pool size); its id
\* occurs once in the collection.
C3_CreateAppendsOne ==
  [][last'.op = "createWatchlist" /\ trim(last'.input) # <<>> =>
       /\ last'.result = "done"
       /\ last'.written =>
            /\ Len(After) = Len(Before) + 1
            /\ SubSeq(After, 1, Len(Before)) = Before
            /\ After[Len(After)].id \notin IdsOf(Before)
            /\ After[Len(After)].items = <<>>
            /\ After[Len(After)].icon = icons[(Len(Before) % Len(icons)) + 1]
            /\ Cardinality({i \in DOMAIN After :
                             After[i].id = After[Len(After)].id}) = 1]_vars

\* a watchlist was created in a collection that already held one with a movie
C3_Witness ==
  /\ Ended("createWatchlist")
  /\ Len(Persisted) >= 2
  /\ Persisted[1].items # <<>>
  /\ Persisted[Len(Persisted)].items = <<>>

\* C4: formCreateMovie on an open watchlist with a title not empty after trim
\* and a poster URL that validatePosterUrl accepts runs to its end, and when
\* its write completes that watchlist has one more movie at the end, with an
\* id no record had, unwatched, review empty, order = the number of movies
\* the watchlist had; nothing else in the collection has changed.
C4_AddItemAppendsOne ==
  [][\A w \in DOMAIN Before :
       /\ last'.op = "addItem"
       /\ Before[w].id = currentWatchlistId
       /\ trim(last'.input.title) # <<>>
       /\ validatePosterUrl(last'.input.posterUrl)
       => /\ last'.result = "done"
          /\ last'.written =>
               /\ Len(After) = Len(Before)
               /\ \A i \in DOMAIN Before : i # w => After[i] = Before[i]
               /\ [After[w] EXCEPT !.items = Before[w].items] = Before[w]
               /\ Len(After[w].items) = Len(Before[w].items) + 1
               /\ SubSeq(After[w].items, 1, Len(Before[w].items)) = Before[w].items
               /\ LET movie == After[w].items[Len(After[w].items)]
                  IN /\ movie.id \notin IdsOf(Before)
                     /\ movie.watched = FALSE
                     /\ movie.review = <<>>
                     /\ movie.order = Len(Before[w].items)]_vars

\* two successive adds to a new watchlist: orders 0 and 1, both unwatched
C4_Witness ==
  /\ Ended("addItem")
  /\ \E w \in DOMAIN Persisted :
       /\ Len(Persisted[w].items) = 2
       /\ Persisted[w].items[1].order = 0
       /\ Persisted[w].items[2].order = 1
       /\ ~Persisted[w].items[1].watched
       /\ ~Persisted[w].items[2].watched

\* C5: toggle-watched on a movie that is already watched runs to its end,
\* leaves the movie watched and, whether or not its write completes, leaves
\* the persisted collection exactly the one before the call.
C5_MarkWatchedIdempotent ==
  [][\A p \in Movies(Before) :
       /\ last'.op = "markWatched"
       /\ Before[p[1]].id = currentWatchlistId
       /\ Before[p[1]].items[p[2]].id = last'.input
       /\ Before[p[1]].items[p[2]].watched
       => /\ last'.result = "done"
          /\ After[p[1]].items[p[2]].watched
          /\ After = Before]_vars

\* toggle-watched has completed on a movie it found already watched
C5_Witness ==
  /\ Ended("markWatched")
  /\ last.found.watched
  /\ \E p \in Movies(Persisted) :
       /\ Persisted[p[1]].items[p[2]].id = last.input
       /\ Persisted[p[1]].items[p[2]].watched

\* C6 as stated: formReview leaves the movie's review equal to the text the
\* user gave.
C6_ReviewIsGivenText ==
  [][\A p \in Movies(Before) :
       /\ Completed("setReview")
       /\ Before[p[1]].id = currentWatchlistId
       /\ Before[p[1]].items[p[2]].id = currentMovieId
       => After[p[1]].items[p[2]].review = last'.input]_vars

\* C6: formReview on an open movie of an open watchlist runs to its end for
\* every text, whatever the movie's review and watched flag, and when its
\* write completes the movie's review is the given text without its leading
\* and trailing white space: the last text wins, the empty text clears it.
C6_ReviewIsTrimmedText ==
  [][\A p \in Movies(Before) :
       /\ last'.op = "setReview"
       /\ Before[p[1]].id = currentWatchlistId
       /\ Before[p[1]].items[p[2]].id = currentMovieId
       => /\ last'.result = "done"
          /\ last'.written =>
               After[p[1]].items[p[2]].review = trim(last'.input)]_vars

\* the review "A" of a watched movie was cleared by the empty text
C6_Witness ==
  /\ Ended("setReview")
  /\ last.input = <<>>
  /\ last.found.review = <<"A">>
  /\ last.found.watched
  /\ \E p \in Movies(Persisted) :
       /\ Persisted[p[1]].items[p[2]].id = last.found.id
       /\ Persisted[p[1]].items[p[2]].review = <<>>

\* C7: sharing a watchlist of the collection runs to its end and gives a copy
\* with the watchlist's title and icon and as many movies, the k-th with the
\* title and posterUrl of the watchlist's k-th movie, unwatched, review empty
\* and order k (counted from 0); the ids of the copy and of its movies are
\* ids no record of the collection has, all different.
C7_ExportIsFreshCopy ==
  \A w \in DOMAIN Persisted :
    last.op = "exportWatchlist" /\ last.input = Persisted[w].id =>
      /\ last.result = "done"
      /\ last.output.title = Persisted[w].title
      /\ last.output.icon = Persisted[w].icon
      /\ Len(last.output.items) = Len(Persisted[w].items)
      /\ \A k \in DOMAIN Persisted[w].items :
           /\ last.output.items[k].title = Persisted[w].items[k].title
           /\ last.output.items[k].posterUrl = Persisted[w].items[k].posterUrl
           /\ last.output.items[k].watched = FALSE
           /\ last.output.items[k].review = <<>>
           /\ last.output.items[k].order = k - 1
      /\ IdsOf(<<last.output>>) \cap IdsOf(Persisted) = {}
      /\ Cardinality(IdsOf(<<last.output>>)) = 1 + Len(last.output.items)

\* a watchlist of two movies, the second watched and reviewed, was shared
C7_Witness ==
  /\ last.op = "exportWatchlist"
  /\ last.result = "done"
  /\ \E w \in DOMAIN Persisted :
       /\ last.input = Persisted[w].id
       /\ Len(Persisted[w].items) = 2
       /\ Persisted[w].items[2].watched
       /\ Persisted[w].items[2].review # <<>>

\* the payload of an import step, and the movies it carries
Payload == last'.input.value
PayloadItems == Get(Payload, "items").v

\* C8: importing a payload validateImportedWatchlist accepts runs to its end,
\* and when its write completes the collection is the one before plus one
\* watchlist at the end; its id and its movies' ids are ids no record had and
\* the payload does not carry, all different; every movie is unwatched, has
\* an empty review and its position as order; the icon, and the movies'
\* titles and posterUrls in payload sequence, are the payload's.
C8_ImportAppendsFreshCopy ==
  [][/\ last'.op = "importWatchlist"
     /\ last'.input.kind = "json"
     /\ validateImportedWatchlist(Payload)
     => /\ last'.result = "done"
        /\ last'.written =>
             /\ Len(After) = Len(Before) + 1
             /\ SubSeq(After, 1, Len(Before)) = Before
             /\ LET new == After[Len(After)]
                IN /\ IdsOf(<<new>>) \cap IdsOf(Before) = {}
                   /\ Cardinality(IdsOf(<<new>>)) = 1 + Len(new.items)
                   /\ JStr(<<ToString(new.id)>>) # Get(Payload, "id")
                   /\ new.icon = Get(Payload, "icon").v
                   /\ Len(new.items) = Len(PayloadItems)
                   /\ \A k \in DOMAIN PayloadItems :
                        /\ new.items[k].title = Get(PayloadItems[k], "title").v
                        /\ new.items[k].posterUrl = Get(PayloadItems[k], "posterUrl").v
                        /\ new.items[k].watched = FALSE
                        /\ new.items[k].review = <<>>
                        /\ new.items[k].order = k - 1
                        /\ \A j \in DOMAIN PayloadItems :
                             JStr(<<ToString(new.items[k].id)>>)
                               # Get(PayloadItems[j], "id")]_vars

\* the foreign payload (its movie watched, reviewed, ordered 7, its ids those
\* of records of the collection) was imported into a collection holding a
\* watchlist with a movie
C8_Witness ==
  /\ Ended("importWatchlist")
  /\ last.input = JsonText(ForeignPayload)
  /\ Len(Persisted) = 2
  /\ Persisted[1].items # <<>>
  /\ Persisted[2].items[1].posterUrl = HttpY

\* C9: when an import completes, the new watchlist's title is the payload's
\* title followed by " (Shared with me)" if some watchlist of the collection
\* had that title ignoring letter case, and the payload's title otherwise;
\* the watchlists the collection had are unchanged.
C9_ImportTitlePolicy ==
  [][Completed("importWatchlist") =>
       LET title == Get(Payload, "title").v
           collides == \E i \in DOMAIN Before :
                          toLowerCase(Before[i].title) = toLowerCase(title)
       IN /\ After[Len(After)].title =
               IF collides
               THEN title \o <<" ","(","S","h","a","r","e","d"," ",
                               "w","i","t","h"," ","m","e",")">>
               ELSE title
          /\ SubSeq(After, 1, Len(Before)) = Before]_vars

\* "h" was imported into a collection holding "H"
C9_Witness ==
  /\ Ended("importWatchlist")
  /\ Len(Persisted) = 2
  /\ Persisted[1].title = <<"H">>
  /\ Persisted[2].title = <<"h">> \o SharedSuffix

\* C10: importing the text just shared of a watchlist w of the collection
\* runs to its end, and when its write completes the collection has one more
\* watchlist, titled w's title, followed by " (Shared with me)" when a title
\* of the collection equals it ignoring letter case; its movies have the
\* titles and posterUrls of w's movies in the same sequence, all unwatched
\* with empty reviews; w is unchanged.
C10_RoundTrip ==
  [][\A w \in DOMAIN Before :
       /\ last'.op = "importWatchlist"
       /\ last'.input = JsonText(ToJSON(SharedCopy(w)))
       => /\ last'.result = "done"
          /\ last'.written =>
               /\ Len(After) = Len(Before) + 1
               /\ After[w] = Before[w]
               /\ LET new == After[Len(After)]
                  IN /\ new.title =
                          IF \E i \in DOMAIN Before :
                               toLowerCase(Before[i].title) = toLowerCase(Before[w].title)
                          THEN Before[w].title \o SharedSuffix
                          ELSE Before[w].title
                     /\ Len(new.items) = Len(Before[w].items)
                     /\ \A k \in DOMAIN new.items :
                          /\ new.items[k].title = Before[w].items[k].title
                          /\ new.items[k].posterUrl = Before[w].items[k].posterUrl
                          /\ new.items[k].watched = FALSE
                          /\ new.items[k].review = <<>>]_vars

\* the share text of a watchlist whose movie is watched and reviewed was
\* imported next to it
C10_Witness ==
  /\ Ended("importWatchlist")
  /\ Len(Persisted) = 2
  /\ Len(Persisted[1].items) = 1
  /\ Len(Persisted[2].items) = 1
  /\ Get(last.input.value, "title").v = Persisted[1].title
  /\ Persisted[2].title = Persisted[1].title \o SharedSuffix
  /\ Persisted[2].items[1].title = Persisted[1].items[1].title
  /\ Persisted[2].items[1].posterUrl = Persisted[1].items[1].posterUrl
  /\ Persisted[1].items[1].watched
  /\ Persisted[1].items[1].review = <<"A">>
  /\ ~Persisted[2].items[1].watched
  /\ Persisted[2].items[1].review = <<>>

\* C11: an import whose text JSON.parse rejects, or whose payload lacks items
\* or holds a movie whose watched is the text "yes", returns false and leaves
\* the stored document exactly what it was: no watchlist and no movie of the
\* payload is added.
C11_RejectedImportNoEffect ==
  [][/\ last'.op = "importWatchlist"
     /\ last'.input \in {UnparsableText, JsonText(NoItemsPayload),
                         JsonText(WatchedYesPayload)}
     => /\ last'.output = FALSE
        /\ last'.result \in {"parseError", "invalid"}
        /\ localStorage' = localStorage]_vars

\* the payload whose movie has watched "yes" was rejected by a collection
\* that holds a watchlist with a movie
C11_Witness ==
  /\ last.op = "importWatchlist"
  /\ last.input = JsonText(WatchedYesPayload)
  /\ last.output = FALSE
  /\ Persisted # <<>>
  /\ Persisted[1].items # <<>>

\* C14 as the specification words it: a create whose title is empty after
\* trim, and an add whose title is empty after trim or whose poster URL, as
\* given, fails validatePosterUrl, leave the persisted collection as it was.
C14_InvalidInputNoEffect ==
  [][/\ last'.op = "createWatchlist" /\ trim(last'.input) = <<>>
        => localStorage' = localStorage
     /\ /\ last'.op = "addItem"
        /\ \/ trim(last'.input.title) = <<>>
           \/ ~validatePosterUrl(last'.input.posterUrl)
        => localStorage' = localStorage]_vars

\* C14: a create whose title is empty after trim, and an add whose title is
\* empty after trim or whose poster URL fails validatePosterUrl once trimmed,
\* end as invalid and leave the stored document exactly as it was.
C14_InvalidAfterTrimNoEffect ==
  [][/\ last'.op = "createWatchlist" /\ trim(last'.input) = <<>>
        => last'.result = "invalid" /\ localStorage' = localStorage
     /\ /\ last'.op = "addItem"
        /\ \/ trim(last'.input.title) = <<>>
           \/ ~validatePosterUrl(trim(last'.input.posterUrl))
        => last'.result = "invalid" /\ localStorage' = localStorage]_vars

\* a javascript: poster URL was refused for a watchlist that is open and holds
\* a movie already
C14_Witness ==
  /\ last.op = "addItem"
  /\ last.input.posterUrl = JavascriptUrl
  /\ last.result = "invalid"
  /\ \E w \in DOMAIN Persisted :
       Persisted[w].id = currentWatchlistId /\ Persisted[w].items # <<>>

\* the collection holds a watchlist of this identifier, and that watchlist a
\* movie of this identifier
HasWatchlist(watchlists, watchlistId) ==
  \E w \in DOMAIN watchlists : watchlists[w].id = watchlistId
HasMovie(watchlists, watchlistId, movieId) ==
  \E w \in DOMAIN watchlists :
     /\ watchlists[w].id = watchlistId
     /\ \E k \in DOMAIN watchlists[w].items : watchlists[w].items[k].id = movieId

\* C15: an add for a watchlist identifier that is not in the collection, and a
\* toggle-watched or a review for a watchlist identifier or a movie identifier
\* that does not resolve (a movie of another watchlist than the open one
\* included), leave the stored document exactly as it was.
C15_NotFoundNoEffect ==
  [][/\ last'.op = "addItem" /\ ~HasWatchlist(Before, currentWatchlistId)
        => last'.result \in {"invalid", "notFound"} /\ localStorage' = localStorage
     /\ last'.op = "markWatched"
          /\ ~HasMovie(Before, currentWatchlistId, last'.input)
        => last'.result = "notFound" /\ localStorage' = localStorage
     /\ last'.op = "setReview"
          /\ ~HasMovie(Before, currentWatchlistId, currentMovieId)
        => last'.result = "notFound" /\ localStorage' = localStorage]_vars

\* a review was submitted for a movie of another watchlist than the open one
C15_Witness ==
  /\ last.op = "setReview"
  /\ last.result = "notFound"
  /\ HasWatchlist(Persisted, currentWatchlistId)
  /\ \E w \in DOMAIN Persisted :
       /\ Persisted[w].id # currentWatchlistId
       /\ HasMovie(Persisted, Persisted[w].id, currentMovieId)

\* C16: when the write of a mutating handler (create, add, toggle-watched,
\* review, import) fails, the stored document stays as it was and the handler
\* does not report success: importWatchlist does not return true, so that no
\* success notice follows.
C16_FailedWriteNotReported ==
  [][last'.op \in {"createWatchlist", "addItem", "markWatched", "setReview",
                   "importWatchlist"}
     /\ last'.result = "done" /\ ~last'.written
     => /\ localStorage' = localStorage
        /\ last'.op = "importWatchlist" => last'.output = FALSE]_vars

\* C18: in every reachable state the identifiers of the stored watchlists and
\* of their movies are pairwise distinct, also after an import whose payload
\* carries identifiers the collection holds already and after the import of
\* one's own export.
C18_IdsPairwiseDistinct ==
  /\ \A i, j \in DOMAIN Persisted : i # j => Persisted[i].id # Persisted[j].id
  /\ \A p, q \in Movies(Persisted) :
       p # q => Persisted[p[1]].items[p[2]].id # Persisted[q[1]].items[q[2]].id
  /\ \A i \in DOMAIN Persisted : \A p \in Movies(Persisted) :
       Persisted[i].id # Persisted[p[1]].items[p[2]].id

\* a payload whose watchlist and movie carry the identifier 1 was imported
\* into a collection whose first watchlist has the identifier 1
C18_Witness ==
  /\ Ended("importWatchlist")
  /\ last.input = JsonText(ForeignPayload)
  /\ Len(Persisted) >= 2
  /\ Persisted[1].id = 1
  /\ Persisted[Len(Persisted)].items # <<>>

\* what renderApp and renderMovies insert into the markup for the stored
\* collection and any of its watchlists
RenderedFields ==
  Range(renderWatchlistCards(Persisted))
  \cup UNION {Range(renderMovies(Persisted, Persisted[w].id)) : w \in DOMAIN Persisted}

\* C19: every text of the collection (watchlist title and icon, movie title,
\* poster URL and review) reaches the rendered markup escaped: nothing that is
\* inserted for it holds a character that opens or closes a tag.
C19_RenderedFieldsEscaped ==
  \A f \in RenderedFields : Range(f.inserted) \cap {"<", ">"} = {}

\* C20: in every reachable state every stored watchlist has the one icon of
\* the pool.
C20_IconIsPoolIcon ==
  \A w \in DOMAIN Persisted : Persisted[w].icon = icons[1]

\* C21: in every reachable state every stored movie has a poster URL that
\* validatePosterUrl accepts, whatever was typed into the add-movie form and
\* whatever payloads were imported.
C21_StoredPosterUrlsValid ==
  \A p \in Movies(Persisted) :
     validatePosterUrl(Persisted[p[1]].items[p[2]].posterUrl)

\* a payload whose second movie has a javascript: poster URL was refused for a
\* collection that holds an imported movie and a typed one
C21_Witness ==
  /\ last.op = "importWatchlist"
  /\ last.input = JsonText(HostilePosterPayload)
  /\ last.result = "invalid"
  /\ \E p, q \in Movies(Persisted) :
       /\ Persisted[p[1]].items[p[2]].posterUrl = HttpY
       /\ Persisted[q[1]].items[q[2]].posterUrl = HttpsX

\* C22: a toggle-watched whose write completes changes nothing in the
\* persisted collection but the watched field of its movie, and a review whose
\* write completes changes nothing but the review field of its movie: the
\* movie's other fields, the other movies and the other watchlists stay.
C22_MutationFrame ==
  [][\A p \in Movies(Before) :
       Before[p[1]].id = currentWatchlistId =>
         /\ (/\ Completed("markWatched")
             /\ Before[p[1]].items[p[2]].id = last'.input
             => After = [Before EXCEPT ![p[1]].items[p[2]].watched = TRUE])
         /\ (/\ Completed("setReview")
             /\ Before[p[1]].items[p[2]].id = currentMovieId
             => /\ Movies(After) = Movies(Before)
                /\ After = [Before EXCEPT ![p[1]].items[p[2]].review =
                                            After[p[1]].items[p[2]].review])]_vars

\* a movie that had a review and was not watched was marked watched, next to
\* another movie of the same watchlist
C22_Witness ==
  /\ Ended("markWatched")
  /\ last.found.review # <<>>
  /\ ~last.found.watched
  /\ \E p \in Movies(Persisted) :
       /\ Persisted[p[1]].items[p[2]].id = last.found.id
       /\ Persisted[p[1]].items[p[2]].review = last.found.review
       /\ Len(Persisted[p[1]].items) >= 2

\* C23: every handler works on the collection as it is stored when the
\* handler runs and writes all of it back with one change: a step leaves the
\* persisted collection as it was, or appends one watchlist to it, or appends
\* one movie to one watchlist, or replaces the watched flag or the review of
\* one movie; whatever earlier steps have stored is still there.
C23_OneChangeToStored ==
  [][\/ After = Before
     \/ /\ Len(After) = Len(Before) + 1
        /\ SubSeq(After, 1, Len(Before)) = Before
     \/ \E w \in DOMAIN Before :
          /\ Len(After) = Len(Before)
          /\ Len(After[w].items) = Len(Before[w].items) + 1
          /\ SubSeq(After[w].items, 1, Len(Before[w].items)) = Before[w].items
          /\ After = [Before EXCEPT ![w].items = After[w].items]
     \/ \E p \in Movies(Before) :
          /\ Movies(After) = Movies(Before)
          /\ \/ After = [Before EXCEPT ![p[1]].items[p[2]].watched = TRUE]
             \/ After = [Before EXCEPT ![p[1]].items[p[2]].review =
                                         After[p[1]].items[p[2]].review]]_vars

\* a movie was added to the second watchlist after a movie of the first was
\* marked watched and reviewed: both are stored
C23_Witness ==
  /\ Ended("addItem")
  /\ Len(Persisted) = 2
  /\ Persisted[2].id = currentWatchlistId
  /\ Persisted[2].items # <<>>
  /\ Persisted[1].items # <<>>
  /\ Persisted[1].items[1].watched
  /\ Persisted[1].items[1].review # <<>>

\* C24: in every reachable state the order of every stored movie is its
\* zero-based position in its watchlist's items, also in a watchlist imported
\* from a payload whose order values are not the positions.
C24_OrderIsPosition ==
  \A p \in Movies(Persisted) : Persisted[p[1]].items[p[2]].order = p[2] - 1

\* a payload whose only movie carries the order 7 was imported into a
\* collection that holds a watchlist with a typed movie
C24_Witness ==
  /\ Ended("importWatchlist")
  /\ last.input = JsonText(ForeignPayload)
  /\ Len(Persisted) = 2
  /\ Len(Persisted[1].items) = 1
  /\ Len(Persisted[2].items) = 1
  /\ Persisted[2].items[1].order = 0

\* C25: after an import whose write completes, the title of the watchlist it
\* added differs, letter case aside, from the title of every watchlist the
\* collection held before the import.
C25_ImportedTitleIsNew ==
  [][Completed("importWatchlist") =>
       \A i \in DOMAIN Before :
          toLowerCase(Before[i].title) # toLowerCase(After[Len(After)].title)]_vars

\* C26: opening a watchlist (getWatchlistById and renderMovies, which sorts
\* the loaded movies) and sharing one leave the stored document exactly as it
\* was: the movies keep their sequence, their watched flags and their reviews.
C26_ReadOnlyNoEffect ==
  [][last'.op \in {"getWatchlist", "exportWatchlist"} =>
       /\ last'.written = FALSE
       /\ localStorage' = localStorage]_vars

\* a watchlist whose movie is watched and reviewed was shared: the copy's movie
\* is neither, the stored movie still is
C26_Witness ==
  /\ last.op = "exportWatchlist"
  /\ last.result = "done"
  /\ \E w \in DOMAIN Persisted :
       /\ Persisted[w].id = last.input
       /\ Persisted[w].items # <<>>
       /\ Persisted[w].items[1].watched
       /\ Persisted[w].items[1].review # <<>>
       /\ ~last.output.items[1].watched
       /\ last.output.items[1].review = <<>>

\* C27: in every reachable state the title of every stored watchlist and of
\* every stored movie is not empty after trim, imported titles and titles
\* that got the " (Shared with me)" suffix included.
C27_TitlesNotBlank ==
  /\ \A w \in DOMAIN Persisted : trim(Persisted[w].title) # <<>>
  /\ \A p \in Movies(Persisted) : trim(Persisted[p[1]].items[p[2]].title) # <<>>

\* a payload was imported under a suffixed title into a collection that holds
\* a typed watchlist with a typed movie
C27_Witness ==
  /\ Ended("importWatchlist")
  /\ Len(Persisted) = 2
  /\ Persisted[1].title = <<"H">>
  /\ Persisted[1].items # <<>>
  /\ Persisted[2].title = <<"h">> \o SharedSuffix
  /\ Persisted[2].items # <<>>

\* ------------------------------------------- validateImportedWatchlist alone

\* an object with the given properties; a property whose value is Undefined
\* is missing
ObjectOf(r) == JObj([f \in {g \in DOMAIN r : r[g] # Undefined} |-> r[f]])

GoodItem ==
  ObjectOf([title |-> JStr(<<"b">>), posterUrl |-> JStr(HttpsX),
            watched |-> JBool(FALSE), order |-> JNum(0)])

\* what JSON.parse can give for an element of items
ItemValues ==
  {JNull, JBool(TRUE), JNum(0), JNum(1), JStr(<<>>), JStr(<<"b">>), JArr(<<>>),
   JArr(<<GoodItem>>)}
  \cup {ObjectOf([title |-> t, posterUrl |-> p, watched |-> w, order |-> o]) :
          t \in {Undefined, JNull, JNum(1), JStr(<<" ">>), JStr(<<" ","b">>)},
          p \in {Undefined, JNum(1), JStr(<<>>), JStr(JavascriptUrl), JStr(HttpY)},
          w \in {Undefined, JNull, JNum(1), JStr(<<"y","e","s">>), JBool(TRUE)},
          o \in {Undefined, JNull, JStr(<<"0">>), JBool(TRUE), JNum(7)}}

\* what JSON.parse can give for items
ItemsValues ==
  {Undefined, JNull, JNum(0), JStr(<<>>), JObj([length |-> JNum(0)]), JArr(<<>>)}
  \cup {JArr(<<e>>) : e \in ItemValues}
  \cup {JArr(<<GoodItem, e>>) : e \in ItemValues}
  \cup {JArr(<<e, GoodItem>>) : e \in ItemValues}

\* what JSON.parse can give for the pasted text
ParsedValues ==
  {JNull, JBool(FALSE), JBool(TRUE), JNum(0), JNum(1), JStr(<<>>), JStr(<<"h">>),
   JArr(<<>>), JArr(<<GoodItem>>)}
  \cup {ObjectOf([title |-> JStr(<<"h">>), icon |-> JStr(<<>>), items |-> i]) :
          i \in ItemsValues}
  \cup {ObjectOf([title |-> t, icon |-> c, items |-> JArr(<<GoodItem>>)]) :
          t \in {Undefined, JNull, JNum(1), JArr(<<>>), JStr(<<>>), JStr(<<"\t"," ">>),
                 JStr(<<"h"," ">>)},
          c \in {Undefined, JNull, JNum(1), JObj([x |-> JNum(1)]), JStr(<<"<">>)}}

InitValidate ==
  /\ localStorage = Absent
  /\ currentWatchlistId = 0
  /\ currentMovieId = 0
  /\ last \in {[op |-> "parsed", input |-> v] : v \in ParsedValues}

\* validateImportedWatchlist(data): what it returns, or that it throws
ValidateImported ==
  /\ last.op = "parsed"
  /\ last' = [op |-> "validateImportedWatchlist", input |-> last.input,
              threw |-> validateImportedWatchlistThrows(last.input),
              output |-> validateImportedWatchlist(last.input)]
  /\ UNCHANGED <<localStorage, currentWatchlistId, currentMovieId>>

NextValidate == ValidateImported

SpecValidate == InitValidate /\ [][NextValidate]_vars

\* a value is a text that is not empty after trim
TextNotBlank(x) == x.t = "string" /\ \E i \in DOMAIN x.v : x.v[i] \notin WhiteSpace

\* the property f of x, when x is an object that has it
Property(x, f) == IF x.t = "object" /\ f \in DOMAIN x.v THEN x.v[f] ELSE Undefined

\* the conditions on one element of items
ElementAccepted(e) ==
  /\ e.t = "object"
  /\ TextNotBlank(Property(e, "title"))
  /\ Property(e, "posterUrl").t = "string"
  /\ validatePosterUrl(Property(e, "posterUrl").v)
  /\ Property(e, "watched").t = "boolean"
  /\ Property(e, "order").t = "number"

\* C12: validateImportedWatchlist returns true exactly for a value that has
\* a text title not empty after trim, a text icon and an items array whose
\* every element has such a title, a posterUrl validatePosterUrl accepts, a
\* boolean watched and a number order; one failing element (null and
\* non-objects included) makes it false; it throws for no parsed value.
C12_ValidateIffWellFormed ==
  last.op = "validateImportedWatchlist" =>
    /\ ~last.threw
    /\ last.output =
         /\ last.input.t = "object"
         /\ TextNotBlank(Property(last.input, "title"))
         /\ Property(last.input, "icon").t = "string"
         /\ Property(last.input, "items").t = "array"
         /\ \A k \in DOMAIN Property(last.input, "items").v :
              ElementAccepted(Property(last.input, "items").v[k])

\* a payload was rejected whose second movie alone fails, by the text "yes"
\* in watched
C12_Witness ==
  /\ last.op = "validateImportedWatchlist"
  /\ last.output = FALSE
  /\ last.input.t = "object"
  /\ Property(last.input, "items").t = "array"
  /\ Len(Property(last.input, "items").v) = 2
  /\ Property(last.input, "items").v[1] = GoodItem
  /\ Property(last.input, "items").v[2] =
       ObjectOf([title |-> JStr(<<" ","b">>), posterUrl |-> JStr(HttpY),
                 watched |-> JStr(<<"y","e","s">>), order |-> JNum(7)])

\* --------------------------------------------------- validatePosterUrl alone

\* texts put together from white space in front, a scheme, what follows the
\* scheme, and the rest
UrlParts ==
  [lead : {<<>>, <<" ">>, <<"\n">>, <<"nbsp">>},
   scheme : {<<>>, <<"h","t","t","p">>, <<"h","t","t","p","s">>,
             <<"H","T","T","P">>, <<"h","T","t","P","s">>, <<"h","t","t">>,
             <<"h","t","t","p","s","s">>, <<"h"," ","t","t","p">>,
             <<"1","h","t","t","p">>, <<"f","t","p">>, <<"d","a","t","a">>,
             <<"j","a","v","a","s","c","r","i","p","t">>},
   sep : {<<>>, <<":">>, <<":","/">>, <<":","/","/">>, <<":","\\","\\">>},
   rest : {<<>>, <<"x">>, <<"x","/","y",".","p","n","g">>, <<"x",":","8","0">>,
           <<"x",":","8","a">>, <<" ","x">>, <<"/","p">>}]
  \cup {[lead |-> <<>>, scheme |-> <<"j","a","v","a","s","c","r","i","p","t">>,
         sep |-> <<":">>, rest |-> <<"a","l","e","r","t","(","1",")">>],
        [lead |-> <<>>, scheme |-> <<"f","t","p">>,
         sep |-> <<":","/","/">>, rest |-> <<"x","/","y">>]}

TextOf(parts) == parts.lead \o parts.scheme \o parts.sep \o parts.rest

\* the values validatePosterUrl is called with: texts, and values of other types
UrlValues ==
  {[parts |-> parts, value |-> JStr(TextOf(parts))] : parts \in UrlParts}
  \cup {[parts |-> [lead |-> <<>>, scheme |-> <<>>, sep |-> <<>>, rest |-> <<>>],
         value |-> v] :
          v \in {Undefined, JNull, JBool(TRUE), JNum(1), JArr(<<>>),
                 JObj([protocol |-> JStr(<<"h","t","t","p",":">>)])}}

InitPosterUrl ==
  /\ localStorage = Absent
  /\ currentWatchlistId = 0
  /\ currentMovieId = 0
  /\ last \in {[op |-> "url", input |-> u] : u \in UrlValues}

\* validatePosterUrl(url): what it returns (it has no throw outside its try)
ValidatePosterUrl ==
  /\ last.op = "url"
  /\ last' = [op |-> "validatePosterUrl", input |-> last.input,
              output |-> validatePosterUrlOf(last.input.value)]
  /\ UNCHANGED <<localStorage, currentWatchlistId, currentMovieId>>

NextPosterUrl == ValidatePosterUrl

SpecPosterUrl == InitPosterUrl /\ [][NextPosterUrl]_vars

\* by the URL standard, the text of these parts is an absolute URL of scheme
\* http or https: nothing but C0-control-or-space comes before the scheme, the
\* scheme is http or https in any letter case, a colon follows it, and after
\* any slashes comes a host, with digits for its port
HttpUrlParts(parts) ==
  /\ parts.lead # <<"nbsp">>
  /\ parts.scheme \in {<<"h","t","t","p">>, <<"h","t","t","p","s">>,
                       <<"H","T","T","P">>, <<"h","T","t","P","s">>}
  /\ parts.sep # <<>>
  /\ parts.rest \in {<<"x">>, <<"x","/","y",".","p","n","g">>,
                     <<"x",":","8","0">>, <<"/","p">>}

\* C13: validatePosterUrl returns true exactly for a text that parses as an
\* absolute URL of scheme http or https; it returns false for values that are
\* not texts, the empty text, relative and malformed URLs and every other
\* scheme.
C13_PosterUrlIffHttp ==
  last.op = "validatePosterUrl" =>
    last.output = (last.input.value.t = "string" /\ HttpUrlParts(last.input.parts))

\* javascript:alert(1) was rejected
C13_Witness ==
  /\ last.op = "validatePosterUrl"
  /\ last.input.value =
       JStr(<<"j","a","v","a","s","c","r","i","p","t",":","a","l","e","r","t","(","1",")">>)
  /\ last.output = FALSE

\* ---------------------------------------------------- loadWatchlists alone

\* collections as saveWatchlists writes them
SavedCollections ==
  LET one == NewWatchlist(<<>>, 1, <<"H">>)
      two == NewWatchlist(one, 2, <<"h">>)
      withMovie == [two EXCEPT ![1].items =
                      Append(@, NewMovie(two[1], 3, <<"a">>, HttpsX))]
  IN {<<>>, one, two, withMovie, <<two[2], two[1]>>}

\* what localStorage can hold under STORAGE_KEY: nothing, a saved collection,
\* a text JSON.parse rejects, or the text of any other JSON value
StorageValues ==
  {Absent, [kind |-> "unparsable"]}
  \cup {Stored(c) : c \in SavedCollections}
  \cup {[kind |-> "json", value |-> v] : v \in ParsedValues}

\* loadWatchlists() for any stored value: JSON.parse(getItem(...)) || [] in a
\* try block, whose catch returns []
loadWatchlistsOf(ls) ==
  CASE ls.kind = "unparsable" -> JArr(<<>>)
    [] ls.kind = "json" -> IF Truthy(ls.value) THEN ls.value ELSE JArr(<<>>)
    [] OTHER -> JArr(loadWatchlists(ls))

InitLoad ==
  /\ localStorage \in StorageValues
  /\ currentWatchlistId = 0
  /\ currentMovieId = 0
  /\ last = [op |-> "load"]

\* loadWatchlists(): what it returns (all of its body is in the try block)
ListWatchlists ==
  /\ last.op = "load"
  /\ last' = [op |-> "listWatchlists", output |-> loadWatchlistsOf(localStorage)]
  /\ UNCHANGED <<localStorage, currentWatchlistId, currentMovieId>>

NextLoad == ListWatchlists

SpecLoad == InitLoad /\ [][NextLoad]_vars

\* C17: loadWatchlists always returns a sequence: the stored watchlists in
\* their order when the stored value is a saved collection, and the empty
\* sequence when the key is absent or the stored value is corrupt (a text that
\* does not parse, or one that parses to something else than a sequence of
\* watchlists).
C17_LoadReturnsSequence ==
  last.op = "listWatchlists" =>
    /\ last.output.t = "array"
    /\ last.output.v = IF localStorage.kind = "array" THEN localStorage.data ELSE <<>>

\* ------------------------------------------------------------ dialogs alone

\* the five overlays, by the names the code gives them
Overlays == {"dialogOverlay", "dialogDetailOverlay", "dialogCreateMovieOverlay",
             "dialogReviewOverlay", "dialogImportOverlay"}

\* where an element of the page is: in an overlay, or on the page beneath them
Container(el) ==
  CASE el = "inputTitle" -> "dialogOverlay"
    [] el \in {"btnAddMovie", "reviewButton"} -> "dialogDetailOverlay"
    [] el = "inputMovieTitle" -> "dialogCreateMovieOverlay"
    [] el = "textareaReview" -> "dialogReviewOverlay"
    [] el = "textareaImport" -> "dialogImportOverlay"
    [] OTHER -> "page"

\* the element is rendered when the overlays in shown are the ones not hidden
Visible(el, shown) == Container(el) = "page" \/ Container(el) \in shown

\* the collection the dialogs are opened on: two watchlists, the first with
\* one movie
DialogsCollection ==
  LET one == NewWatchlist(<<>>, 1, <<"H">>)
      two == NewWatchlist(one, 2, <<"h">>)
  IN [two EXCEPT ![1].items = Append(@, NewMovie(two[1], 3, <<"a">>, HttpsX))]

\* the part of the DOM the dialog functions read and write: the overlays
\* without the class "hide", the variable lastFocusedElement and
\* document.activeElement
ClosedDom ==
  [overlays |-> {}, lastFocusedElement |-> "null", activeElement |-> "body"]

\* a button that is clicked, or activated by a key, has the focus when its
\* handler runs
Clicked(dom, el) == [dom EXCEPT !.activeElement = el]

\* openModal(overlayEl, dialogEl, focusEl); focusEl is "null" for none
openModal(dom, overlayEl, focusEl) ==
  [overlays |-> dom.overlays \cup {overlayEl},
   lastFocusedElement |-> dom.activeElement,
   activeElement |-> IF focusEl # "null" THEN focusEl ELSE dom.activeElement]

\* closeModal(overlayEl, dialogEl, formEl): focus() has no effect on an element
\* that is not rendered, and once the element that has the focus is hidden the
\* browser either leaves document.activeElement as it is or moves it to the
\* body (fixup)
closeModal(dom, overlayEl, fixup) ==
  LET shown == dom.overlays \ {overlayEl}
      focused == IF dom.lastFocusedElement # "null"
                    /\ Visible(dom.lastFocusedElement, shown)
                 THEN dom.lastFocusedElement ELSE dom.activeElement
  IN [overlays |-> shown,
      lastFocusedElement |-> "null",
      activeElement |-> IF ~Visible(focused, shown) /\ fixup THEN "body" ELSE focused]

\* the dialogs start closed on the stored collection; last holds the event
\* handled last, the DOM it left and, for every overlay, the element that had
\* the focus when openModal last opened it
InitDialogs ==
  /\ localStorage = Stored(DialogsCollection)
  /\ currentWatchlistId = 0
  /\ currentMovieId = 0
  /\ last = [op |-> "load", dom |-> ClosedDom,
             focusAtOpen |-> [o \in Overlays |-> "null"]]

\* an open function has run: openModal on the DOM as the click left it
Opened(op, dom, overlayEl, focusEl) ==
  last' = [op |-> op, dom |-> openModal(dom, overlayEl, focusEl),
           focusAtOpen |-> [last.focusAtOpen EXCEPT ![overlayEl] = dom.activeElement]]

\* fab click: openDialog(); the dialogs are opened by setting the attribute
\* "open", not by showModal(), so the buttons of the page can be reached by
\* keyboard while an overlay is shown
FabClick ==
  /\ Opened("openDialog", Clicked(last.dom, "fab"), "dialogOverlay", "inputTitle")
  /\ UNCHANGED <<localStorage, currentWatchlistId, currentMovieId>>

\* btnImport click: openImportDialog()
BtnImportClick ==
  /\ Opened("openImportDialog", Clicked(last.dom, "btnImport"),
            "dialogImportOverlay", "textareaImport")
  /\ UNCHANGED <<localStorage, currentWatchlistId, currentMovieId>>

\* contentGrid click on a card, which no overlay covers: openDetailDialog(id);
\* a card is not a control, the click leaves the focus on the body
CardClick(id) ==
  /\ last.dom.overlays = {}
  /\ IF FindById(loadWatchlists(localStorage), id) = 0
     THEN /\ last' = [last EXCEPT !.op = "openDetailDialog",
                                  !.dom = Clicked(last.dom, "body")]
          /\ UNCHANGED currentWatchlistId
     ELSE /\ currentWatchlistId' = id
          /\ Opened("openDetailDialog", Clicked(last.dom, "body"),
                    "dialogDetailOverlay", "null")
  /\ UNCHANGED <<localStorage, currentMovieId>>

\* btnAddMovie click: openCreateMovieDialog()
BtnAddMovieClick ==
  /\ "dialogDetailOverlay" \in last.dom.overlays
  /\ Opened("openCreateMovieDialog", Clicked(last.dom, "btnAddMovie"),
            "dialogCreateMovieOverlay", "inputMovieTitle")
  /\ UNCHANGED <<localStorage, currentWatchlistId, currentMovieId>>

\* detailContent click on the review button of a rendered movie card:
\* openReviewDialog(movieId, movie.review)
ReviewButtonClick(movieId) ==
  LET watchlists == loadWatchlists(localStorage)
      w == FindById(watchlists, currentWatchlistId)
      m == IF w = 0 THEN 0 ELSE FindById(watchlists[w].items, movieId)
  IN /\ "dialogDetailOverlay" \in last.dom.overlays
     /\ m # 0
     /\ currentMovieId' = movieId
     /\ Opened("openReviewDialog", Clicked(last.dom, "reviewButton"),
               "dialogReviewOverlay", "textareaReview")
     /\ UNCHANGED <<localStorage, currentWatchlistId>>

\* the close function of an overlay: closeDialog, closeDetailDialog,
\* closeCreateMovieDialog, closeReviewDialog or closeImportDialog
Close(op, overlayEl) ==
  /\ \E fixup \in BOOLEAN :
       last' = [last EXCEPT !.op = op, !.dom = closeModal(last.dom, overlayEl, fixup)]
  /\ currentWatchlistId' =
       IF overlayEl = "dialogDetailOverlay" THEN 0 ELSE currentWatchlistId
  /\ currentMovieId' =
       IF overlayEl = "dialogReviewOverlay" THEN 0 ELSE currentMovieId
  /\ UNCHANGED localStorage

\* a click on an overlay that is shown, or on the close button of its dialog
OverlayClick(overlayEl) ==
  /\ overlayEl \in last.dom.overlays
  /\ Close("overlayClick", overlayEl)

EscapeKeydown_EveryShown ==
  /\ last.dom.overlays # {}
  /\ \E fixup \in BOOLEAN :
       last' = [last EXCEPT !.op = "Escape",
                            !.dom = [closeModal(last.dom, "dialogOverlay", fixup)
                                       EXCEPT !.overlays = {}]]
  /\ currentWatchlistId' = 0
  /\ currentMovieId' = 0
  /\ UNCHANGED localStorage

\* document keydown, Escape: the first overlay of the chain that is shown
EscapeKeydown ==
  LET shown == last.dom.overlays
  IN IF "dialogReviewOverlay" \in shown THEN Close("Escape", "dialogReviewOverlay")
     ELSE IF "dialogCreateMovieOverlay" \in shown
     THEN Close("Escape", "dialogCreateMovieOverlay")
     ELSE IF "dialogImportOverlay" \in shown THEN Close("Escape", "dialogImportOverlay")
     ELSE IF "dialogDetailOverlay" \in shown THEN Close("Escape", "dialogDetailOverlay")
     ELSE IF "dialogOverlay" \in shown THEN Close("Escape", "dialogOverlay")
     ELSE /\ last' = [last EXCEPT !.op = "Escape"]
          /\ UNCHANGED <<localStorage, currentWatchlistId, currentMovieId>>

NextDialogs ==
  \/ FabClick
  \/ BtnImportClick
  \/ \E id \in 1..3 : CardClick(id)
  \/ BtnAddMovieClick
  \/ \E movieId \in 3..4 : ReviewButtonClick(movieId)
  \/ \E overlayEl \in Overlays : OverlayClick(overlayEl)
  \/ EscapeKeydown

SpecDialogs == InitDialogs /\ [][NextDialogs]_vars

\* the overlays a step hides
Hidden == last.dom.overlays \ last'.dom.overlays

\* C28: closing a dialog puts the focus back on the element that had it when
\* that dialog was opened, in every sequence of opens and closes, also when a
\* nested dialog was opened and closed in between
C28_CloseRestoresFocus ==
  [][\A overlayEl \in Hidden : last'.dom.activeElement = last.focusAtOpen[overlayEl]]_vars

\* the place of an overlay in the nesting order, the topmost first
Rank(overlayEl) ==
  CASE overlayEl = "dialogReviewOverlay" -> 1
    [] overlayEl = "dialogCreateMovieOverlay" -> 2
    [] overlayEl = "dialogImportOverlay" -> 3
    [] overlayEl = "dialogDetailOverlay" -> 4
    [] overlayEl = "dialogOverlay" -> 5

\* C29: one press of Escape hides at most one overlay and shows none, the one
\* it hides is the first shown one in the order review, add movie, import,
\* detail, create watchlist, and while the review or the add-movie overlay is
\* shown it leaves the detail overlay and currentWatchlistId as they are
C29_EscapeClosesTopmost ==
  [][last'.op = "Escape" =>
       /\ last'.dom.overlays \subseteq last.dom.overlays
       /\ Cardinality(Hidden) <= 1
       /\ \A overlayEl \in Hidden :
            \A other \in last.dom.overlays : Rank(overlayEl) <= Rank(other)
       /\ last.dom.overlays \cap {"dialogReviewOverlay", "dialogCreateMovieOverlay"} # {}
          => /\ "dialogDetailOverlay" \notin Hidden
             /\ currentWatchlistId' = currentWatchlistId]_vars

\* Escape was pressed while the review dialog was open over the detail
\* dialog: the detail dialog is still shown on its watchlist and the focus is
\* back on the review button
C29_Witness ==
  /\ last.op = "Escape"
  /\ last.dom.overlays = {"dialogDetailOverlay"}
  /\ last.focusAtOpen["dialogReviewOverlay"] = "reviewButton"
  /\ last.dom.activeElement = "reviewButton"
  /\ currentWatchlistId = 1
  /\ currentMovieId = 0

====
